---- MODULE Spec2Model ----
(* State-machine model of src/main.go: the bucket cleaner's pipeline of one  *)
(* enumerator goroutine, cfg.Cleanup.Workers worker goroutines and the main  *)
(* goroutine, communicating through fileChan, doneChan and four atomic       *)
(* counters.                                                                 *)
EXTENDS Integers, Sequences, FiniteSets, TLC

(* ------------------------------------------------------------------------ *)
(* Bounds of the model and values of the run's policy.                       *)
MaxObjects == 2
MaxWorkers == 2
BurstObjects == 3
MinSize == 2
ThresholdTime == 2
MaxElapsed == 1

(* fileChan := make(chan minio.ObjectInfo, cfg.Cleanup.Workers*2)            *)
QueueFactor == 2

Sizes == (MinSize - 1) .. (MinSize + 1)
Times == ThresholdTime .. (ThresholdTime + 1)

VARIABLES
    cfg,            \* [Workers, DryRun]: cfg.Cleanup of the run
    bucket,         \* the bucket's objects at run start, in listing order
    listing1,       \* the stream the first ListObjects call yields
    listing2,       \* the stream the second ListObjects call yields
    delFails,       \* keys for which RemoveObject returns an error
    totalFiles, processedFiles, deletedFiles, deletedSize,
    fileChan,       \* buffered channel contents
    chanClosed,     \* close(fileChan) has run
    epc, count, pos,        \* enumerator goroutine: position, local count, stream index
    wpc, wobj,      \* worker goroutines: position, the obj of the loop body
    mpc, summary,   \* main goroutine: position, arguments loaded for the final log line
    delCalls,       \* RemoveObject calls issued, per key
    removed,        \* keys RemoveObject has removed from the bucket
    candidates,     \* keys logged as files to clean (line 161)
    rpc, rproc,     \* progress reporter goroutine: position, the processed count it loaded
    progress,       \* the last progress line logged (line 133)
    run, first      \* which run of the program this is, and what the first run left

vars == << cfg, bucket, listing1, listing2, delFails, totalFiles, processedFiles,
           deletedFiles, deletedSize, fileChan, chanClosed, epc, count, pos,
           wpc, wobj, mpc, summary, delCalls, removed, candidates,
           rpc, rproc, progress, run, first >>

(* The state the worker, enumerator and main steps never touch.              *)
aux == << rproc, progress, run, first >>

(* ------------------------------------------------------------------------ *)
(* Data.                                                                     *)
NoObj == [Err |-> FALSE, Key |-> 0, Size |-> 0, LastModified |-> 0]

ErrEntry == [Err |-> TRUE, Key |-> 0, Size |-> 0, LastModified |-> 0]

Obj(k, s, t) == [Err |-> FALSE, Key |-> k, Size |-> s, LastModified |-> t]

(* Buckets of n objects: keys are unique and listed in key order.            *)
BucketsOfLen(n) ==
    { [i \in 1..n |-> Obj(i, a[i][1], a[i][2])] : a \in [1..n -> Sizes \X Times] }

Buckets == UNION { BucketsOfLen(n) : n \in 0..MaxObjects }

(* A listing stream of the bucket: the entries at the positions in errs      *)
(* carry an error instead of valid metadata.                                 *)
StreamOf(b, errs) == [i \in 1..Len(b) |-> IF i \in errs THEN ErrEntry ELSE b[i]]

RECURSIVE ValidEntries(_)
ValidEntries(s) ==
    IF s = << >> THEN << >>
    ELSE IF Head(s).Err THEN ValidEntries(Tail(s))
    ELSE << Head(s) >> \o ValidEntries(Tail(s))

RECURSIVE SumSizes(_)
SumSizes(s) == IF s = << >> THEN 0 ELSE Head(s).Size + SumSizes(Tail(s))

Prefix(s, n) == SubSeq(s, 1, n)

Workers == 1 .. cfg.Workers

(* Variant: the capacity is one more than twice the worker count.           *)
QueueCapPlusOne == cfg.Workers * QueueFactor + 1

QueueCap == cfg.Workers * QueueFactor

(* ------------------------------------------------------------------------ *)
(* The worker's filter, lines 149 and 155.                                   *)
(* Variant: the size comparison is off by one.                              *)
TooSmallOffByOne(obj) == obj.Size < MinSize - 1

TooSmall(obj) == obj.Size < MinSize

(* Variant: a time equal to the threshold counts as after it.               *)
AfterOrEqual(t, u) == t >= u

(* line 104: thresholdTime := time.Now().AddDate(0, 0, -MaxAge), computed   *)
(* at the start of each run: ThresholdTime in the first run, later by the    *)
(* time that has passed in a second one.                                     *)
Threshold == ThresholdTime + first.elapsed

(* time.Time.After                                                           *)
After(t, u) == t > u

TooRecent(obj) == After(obj.LastModified, Threshold)

(* minioClient.RemoveObject: the outcome for a key.                          *)
RemoveFails(key) == key \in delFails

(* No progress line has been logged yet; no earlier run has been made.       *)
NoLine == [processed |-> -1, total |-> -1]

NoRun == [total |-> -1, processed |-> -1, deleted |-> -1, removed |-> {},
          drained |-> FALSE, clean |-> FALSE, elapsed |-> 0,
          pending |-> {}, inflight |-> {}, failed |-> {}]

(* The process is alive: main has neither returned nor called log.Fatalf.    *)
Alive == mpc \notin {"startup", "fatal", "exited"}

(* ------------------------------------------------------------------------ *)
Init ==
    /\ cfg \in [Workers : 0..MaxWorkers, DryRun : BOOLEAN]
    /\ bucket \in Buckets
    /\ \E e1 \in SUBSET (1..Len(bucket)), e2 \in SUBSET (1..Len(bucket)) :
          /\ listing1 = StreamOf(bucket, e1)
          /\ listing2 = StreamOf(bucket, e2)
    /\ delFails \in IF cfg.DryRun THEN {{}} ELSE SUBSET (1..Len(bucket))
    /\ totalFiles = 0 /\ processedFiles = 0 /\ deletedFiles = 0 /\ deletedSize = 0
    /\ fileChan = << >>
    /\ chanClosed = FALSE
    /\ epc = "idle" /\ count = 0 /\ pos = 1
    /\ wpc = [w \in 1..MaxWorkers |-> "idle"]
    /\ wobj = [w \in 1..MaxWorkers |-> NoObj]
    /\ mpc = "startup"
    /\ summary = [total |-> -1, processed |-> -1, deleted |-> -1, size |-> -1]
    /\ delCalls = [k \in 1..MaxObjects |-> 0]
    /\ removed = {}
    /\ candidates = {}
    /\ rpc = "idle" /\ rproc = 0
    /\ progress = NoLine
    /\ run = 1 /\ first = NoRun

(* ------------------------------------------------------------------------ *)
(* main, lines 80-101: loadConfig, setupLogging or minio.New fails and       *)
(* log.Fatalf ends the process before any goroutine is started.              *)
StartupFail ==
    /\ mpc = "startup"
    /\ mpc' = "fatal"
    /\ UNCHANGED << cfg, bucket, listing1, listing2, delFails, totalFiles,
                    processedFiles, deletedFiles, deletedSize, fileChan, chanClosed,
                    epc, count, pos, wpc, wobj, summary, delCalls, removed, candidates, rpc, aux >>

(* main, lines 104-212: the channels are made, the reporter, the worker      *)
(* goroutines and the enumerator goroutine are started, and main blocks on   *)
(* <-doneChan.                                                               *)
StartupOk ==
    /\ mpc = "startup"
    /\ mpc' = "waitDone"
    /\ epc' = "pass1"
    /\ wpc' = [w \in 1..MaxWorkers |-> IF w \in Workers THEN "recv" ELSE "idle"]
    /\ rpc' = "sleep"
    /\ UNCHANGED << cfg, bucket, listing1, listing2, delFails, totalFiles,
                    processedFiles, deletedFiles, deletedSize, fileChan, chanClosed,
                    count, pos, wobj, summary, delCalls, removed, candidates, aux >>

(* ------------------------------------------------------------------------ *)
(* Enumerator goroutine, lines 186-212.                                      *)

(* Variant: the count is published to totalFiles entry by entry.             *)
EnumCountLive ==
    /\ Alive /\ epc = "pass1"
    /\ pos <= Len(listing1) /\ ~listing1[pos].Err
    /\ count' = count + 1
    /\ totalFiles' = count + 1
    /\ pos' = pos + 1
    /\ UNCHANGED << cfg, bucket, listing1, listing2, delFails,
                    processedFiles, deletedFiles, deletedSize, fileChan, chanClosed,
                    epc, wpc, wobj, mpc, summary, delCalls, removed, candidates, rpc, aux >>

(* lines 189-195, a valid entry: count++                                     *)
EnumCount ==
    /\ Alive /\ epc = "pass1"
    /\ pos <= Len(listing1) /\ ~listing1[pos].Err
    /\ count' = count + 1
    /\ pos' = pos + 1
    /\ UNCHANGED << cfg, bucket, listing1, listing2, delFails, totalFiles,
                    processedFiles, deletedFiles, deletedSize, fileChan, chanClosed,
                    epc, wpc, wobj, mpc, summary, delCalls, removed, candidates, rpc, aux >>

(* Variant: a listing error is treated as fatal (log.Fatalf).                *)
EnumSkip1Fatal ==
    /\ Alive /\ epc = "pass1"
    /\ pos <= Len(listing1) /\ listing1[pos].Err
    /\ mpc' = "fatal"
    /\ UNCHANGED << cfg, bucket, listing1, listing2, delFails, totalFiles,
                    processedFiles, deletedFiles, deletedSize, fileChan, chanClosed,
                    epc, count, pos, wpc, wobj, summary, delCalls, removed, candidates, rpc, aux >>

(* lines 190-193, an entry with obj.Err != nil: log and continue             *)
EnumSkip1 ==
    /\ Alive /\ epc = "pass1"
    /\ pos <= Len(listing1) /\ listing1[pos].Err
    /\ pos' = pos + 1
    /\ UNCHANGED << cfg, bucket, listing1, listing2, delFails, totalFiles,
                    processedFiles, deletedFiles, deletedSize, fileChan, chanClosed,
                    epc, count, wpc, wobj, mpc, summary, delCalls, removed, candidates, rpc, aux >>

(* lines 196-202: the first stream has ended; store the count and list again *)
EnumStoreTotal ==
    /\ Alive /\ epc = "pass1"
    /\ pos > Len(listing1)
    /\ totalFiles' = count
    /\ epc' = "pass2"
    /\ pos' = 1
    /\ UNCHANGED << cfg, bucket, listing1, listing2, delFails, processedFiles,
                    deletedFiles, deletedSize, fileChan, chanClosed, count,
                    wpc, wobj, mpc, summary, delCalls, removed, candidates, rpc, aux >>

(* Variant: the send does not wait for room in the channel.                 *)
EnumSendUnbounded ==
    /\ Alive /\ epc = "pass2"
    /\ pos <= Len(listing2) /\ ~listing2[pos].Err
    /\ fileChan' = Append(fileChan, listing2[pos])
    /\ pos' = pos + 1
    /\ UNCHANGED << cfg, bucket, listing1, listing2, delFails, totalFiles,
                    processedFiles, deletedFiles, deletedSize, chanClosed,
                    epc, count, wpc, wobj, mpc, summary, delCalls, removed, candidates, rpc, aux >>

(* lines 203-209, a valid entry: fileChan <- obj, blocking while it is full  *)
EnumSend ==
    /\ Alive /\ epc = "pass2"
    /\ pos <= Len(listing2) /\ ~listing2[pos].Err
    /\ Len(fileChan) < QueueCap
    /\ fileChan' = Append(fileChan, listing2[pos])
    /\ pos' = pos + 1
    /\ UNCHANGED << cfg, bucket, listing1, listing2, delFails, totalFiles,
                    processedFiles, deletedFiles, deletedSize, chanClosed,
                    epc, count, wpc, wobj, mpc, summary, delCalls, removed, candidates, rpc, aux >>

(* Variant: a listing error ends the pass (break instead of continue).      *)
EnumSkip2Abort ==
    /\ Alive /\ epc = "pass2"
    /\ pos <= Len(listing2) /\ listing2[pos].Err
    /\ chanClosed' = TRUE
    /\ epc' = "sendDone"
    /\ UNCHANGED << cfg, bucket, listing1, listing2, delFails, totalFiles,
                    processedFiles, deletedFiles, deletedSize, fileChan,
                    count, pos, wpc, wobj, mpc, summary, delCalls, removed, candidates, rpc, aux >>

(* Variant: a skipped error entry is counted as processed.                   *)
EnumSkip2CountsProcessed ==
    /\ Alive /\ epc = "pass2"
    /\ pos <= Len(listing2) /\ listing2[pos].Err
    /\ pos' = pos + 1
    /\ processedFiles' = processedFiles + 1
    /\ UNCHANGED << cfg, bucket, listing1, listing2, delFails, totalFiles,
                    deletedFiles, deletedSize, fileChan, chanClosed,
                    epc, count, wpc, wobj, mpc, summary, delCalls, removed, candidates, rpc, aux >>

(* lines 204-207, an entry with obj.Err != nil: log and continue             *)
EnumSkip2 ==
    /\ Alive /\ epc = "pass2"
    /\ pos <= Len(listing2) /\ listing2[pos].Err
    /\ pos' = pos + 1
    /\ UNCHANGED << cfg, bucket, listing1, listing2, delFails, totalFiles,
                    processedFiles, deletedFiles, deletedSize, fileChan, chanClosed,
                    epc, count, wpc, wobj, mpc, summary, delCalls, removed, candidates, rpc, aux >>

(* Variant: the enumerator returns after close without sending on doneChan.  *)
EnumCloseNoSignal ==
    /\ Alive /\ epc = "pass2"
    /\ pos > Len(listing2)
    /\ chanClosed' = TRUE
    /\ epc' = "exited"
    /\ UNCHANGED << cfg, bucket, listing1, listing2, delFails, totalFiles,
                    processedFiles, deletedFiles, deletedSize, fileChan,
                    count, pos, wpc, wobj, mpc, summary, delCalls, removed, candidates, rpc, aux >>

(* line 210: close(fileChan)                                                 *)
EnumClose ==
    /\ Alive /\ epc = "pass2"
    /\ pos > Len(listing2)
    /\ chanClosed' = TRUE
    /\ epc' = "sendDone"
    /\ UNCHANGED << cfg, bucket, listing1, listing2, delFails, totalFiles,
                    processedFiles, deletedFiles, deletedSize, fileChan,
                    count, pos, wpc, wobj, mpc, summary, delCalls, removed, candidates, rpc, aux >>

(* lines 211 and 215: doneChan is unbuffered, so the enumerator's send and   *)
(* main's receive are one rendezvous.                                        *)
DoneHandshake ==
    /\ epc = "sendDone" /\ mpc = "waitDone"
    /\ epc' = "exited"
    /\ mpc' = "loadTotal"
    /\ UNCHANGED << cfg, bucket, listing1, listing2, delFails, totalFiles,
                    processedFiles, deletedFiles, deletedSize, fileChan, chanClosed,
                    count, pos, wpc, wobj, summary, delCalls, removed, candidates, rpc, aux >>

(* ------------------------------------------------------------------------ *)
(* Worker goroutines, lines 145-178.                                         *)

(* Variant: the workers start receiving only once fileChan is closed.       *)
WorkerRecvAfterClose(w) ==
    /\ Alive /\ wpc[w] = "recv"
    /\ fileChan # << >> /\ chanClosed
    /\ wobj' = [wobj EXCEPT ![w] = Head(fileChan)]
    /\ fileChan' = Tail(fileChan)
    /\ wpc' = [wpc EXCEPT ![w] = "filter"]
    /\ UNCHANGED << cfg, bucket, listing1, listing2, delFails, totalFiles,
                    processedFiles, deletedFiles, deletedSize, chanClosed,
                    epc, count, pos, mpc, summary, delCalls, removed, candidates, rpc, aux >>

(* Variant: the receive leaves the element in the channel.                  *)
WorkerRecvPeek(w) ==
    /\ Alive /\ wpc[w] = "recv"
    /\ fileChan # << >>
    /\ wobj' = [wobj EXCEPT ![w] = Head(fileChan)]
    /\ wpc' = [wpc EXCEPT ![w] = "filter"]
    /\ UNCHANGED << cfg, bucket, listing1, listing2, delFails, totalFiles,
                    processedFiles, deletedFiles, deletedSize, fileChan, chanClosed,
                    epc, count, pos, mpc, summary, delCalls, removed, candidates, rpc, aux >>

(* line 147: for obj := range fileChan, an element is received               *)
WorkerRecv(w) ==
    /\ Alive /\ wpc[w] = "recv"
    /\ fileChan # << >>
    /\ wobj' = [wobj EXCEPT ![w] = Head(fileChan)]
    /\ fileChan' = Tail(fileChan)
    /\ wpc' = [wpc EXCEPT ![w] = "filter"]
    /\ UNCHANGED << cfg, bucket, listing1, listing2, delFails, totalFiles,
                    processedFiles, deletedFiles, deletedSize, chanClosed,
                    epc, count, pos, mpc, summary, delCalls, removed, candidates, rpc, aux >>

(* Variant: the worker returns as soon as it finds fileChan empty.           *)
WorkerExitOnEmpty(w) ==
    /\ Alive /\ wpc[w] = "recv"
    /\ fileChan = << >>
    /\ wpc' = [wpc EXCEPT ![w] = "exited"]
    /\ UNCHANGED << cfg, bucket, listing1, listing2, delFails, totalFiles,
                    processedFiles, deletedFiles, deletedSize, fileChan, chanClosed,
                    epc, count, pos, wobj, mpc, summary, delCalls, removed, candidates, rpc, aux >>

(* line 147: the range loop ends once fileChan is closed and empty           *)
WorkerExit(w) ==
    /\ Alive /\ wpc[w] = "recv"
    /\ fileChan = << >> /\ chanClosed
    /\ wpc' = [wpc EXCEPT ![w] = "exited"]
    /\ UNCHANGED << cfg, bucket, listing1, listing2, delFails, totalFiles,
                    processedFiles, deletedFiles, deletedSize, fileChan, chanClosed,
                    epc, count, pos, wobj, mpc, summary, delCalls, removed, candidates, rpc, aux >>

(* lines 149-152: obj.Size < cfg.Cleanup.MinSize                             *)
WorkerSkipSmall(w) ==
    /\ Alive /\ wpc[w] = "filter"
    /\ TooSmall(wobj[w])
    /\ processedFiles' = processedFiles + 1
    /\ wpc' = [wpc EXCEPT ![w] = "recv"]
    /\ wobj' = [wobj EXCEPT ![w] = NoObj]
    /\ UNCHANGED << cfg, bucket, listing1, listing2, delFails, totalFiles,
                    deletedFiles, deletedSize, fileChan, chanClosed,
                    epc, count, pos, mpc, summary, delCalls, removed, candidates, rpc, aux >>

(* lines 155-158: obj.LastModified.After(thresholdTime)                      *)
WorkerSkipRecent(w) ==
    /\ Alive /\ wpc[w] = "filter"
    /\ ~TooSmall(wobj[w]) /\ TooRecent(wobj[w])
    /\ processedFiles' = processedFiles + 1
    /\ wpc' = [wpc EXCEPT ![w] = "recv"]
    /\ wobj' = [wobj EXCEPT ![w] = NoObj]
    /\ UNCHANGED << cfg, bucket, listing1, listing2, delFails, totalFiles,
                    deletedFiles, deletedSize, fileChan, chanClosed,
                    epc, count, pos, mpc, summary, delCalls, removed, candidates, rpc, aux >>

(* line 161: the object passed both tests and is logged as a candidate       *)
WorkerLogCandidate(w) ==
    /\ Alive /\ wpc[w] = "filter"
    /\ ~TooSmall(wobj[w]) /\ ~TooRecent(wobj[w])
    /\ candidates' = candidates \cup {wobj[w].Key}
    /\ wpc' = [wpc EXCEPT ![w] = "logged"]
    /\ UNCHANGED << cfg, bucket, listing1, listing2, delFails, totalFiles,
                    processedFiles, deletedFiles, deletedSize, fileChan, chanClosed,
                    epc, count, pos, wobj, mpc, summary, delCalls, removed, rpc, aux >>

(* Variant: the preview flag is not consulted and RemoveObject is called.   *)
WorkerDryRunCalls(w) ==
    /\ Alive /\ wpc[w] = "logged"
    /\ cfg.DryRun
    /\ delCalls' = [delCalls EXCEPT ![wobj[w].Key] = @ + 1]
    /\ wpc' = [wpc EXCEPT ![w] = "calling"]
    /\ UNCHANGED << cfg, bucket, listing1, listing2, delFails, totalFiles,
                    processedFiles, deletedFiles, deletedSize, fileChan, chanClosed,
                    epc, count, pos, wobj, mpc, summary, removed, candidates, rpc, aux >>

(* lines 165 and 175: in preview mode no RemoveObject call is made and the   *)
(* object is counted as processed                                            *)
WorkerDryRun(w) ==
    /\ Alive /\ wpc[w] = "logged"
    /\ cfg.DryRun
    /\ processedFiles' = processedFiles + 1
    /\ wpc' = [wpc EXCEPT ![w] = "recv"]
    /\ wobj' = [wobj EXCEPT ![w] = NoObj]
    /\ UNCHANGED << cfg, bucket, listing1, listing2, delFails, totalFiles,
                    deletedFiles, deletedSize, fileChan, chanClosed,
                    epc, count, pos, mpc, summary, delCalls, removed, candidates, rpc, aux >>

(* lines 165-166: minioClient.RemoveObject is called; the request is on its  *)
(* way and the worker waits for the answer                                   *)
WorkerRemoveCall(w) ==
    /\ Alive /\ wpc[w] = "logged"
    /\ ~cfg.DryRun
    /\ delCalls' = [delCalls EXCEPT ![wobj[w].Key] = @ + 1]
    /\ wpc' = [wpc EXCEPT ![w] = "calling"]
    /\ UNCHANGED << cfg, bucket, listing1, listing2, delFails, totalFiles,
                    processedFiles, deletedFiles, deletedSize, fileChan, chanClosed,
                    epc, count, pos, wobj, mpc, summary, removed, candidates, rpc, aux >>

(* line 166, the server's part of RemoveObject: the request is served, the   *)
(* object is removed unless the removal fails. The server does this whether  *)
(* or not the calling process is still there.                                *)
RemoveObjectServed(w) ==
    /\ wpc[w] = "calling"
    /\ removed' = IF RemoveFails(wobj[w].Key) THEN removed
                  ELSE removed \cup {wobj[w].Key}
    /\ wpc' = [wpc EXCEPT ![w] = "served"]
    /\ UNCHANGED << cfg, bucket, listing1, listing2, delFails, totalFiles,
                    processedFiles, deletedFiles, deletedSize, fileChan, chanClosed,
                    epc, count, pos, wobj, mpc, summary, delCalls, candidates, rpc, aux >>

(* Variant: a failed RemoveObject skips the rest of the loop body.          *)
WorkerRemoveNoCount(w) ==
    /\ Alive /\ wpc[w] = "served"
    /\ IF RemoveFails(wobj[w].Key)
       THEN /\ wpc' = [wpc EXCEPT ![w] = "recv"]
            /\ wobj' = [wobj EXCEPT ![w] = NoObj]
       ELSE /\ wpc' = [wpc EXCEPT ![w] = "addDeleted"]
            /\ UNCHANGED wobj
    /\ UNCHANGED << cfg, bucket, listing1, listing2, delFails, totalFiles,
                    processedFiles, deletedFiles, deletedSize, fileChan, chanClosed,
                    epc, count, pos, mpc, summary, delCalls, removed, candidates, rpc, aux >>

(* lines 166-170: RemoveObject returns; on an error the failure is logged    *)
(* and the counters of deletions are left alone                              *)
WorkerRemoveReturn(w) ==
    /\ Alive /\ wpc[w] = "served"
    /\ wpc' = [wpc EXCEPT ![w] =
                  IF RemoveFails(wobj[w].Key) THEN "addProcessed" ELSE "addDeleted"]
    /\ UNCHANGED << cfg, bucket, listing1, listing2, delFails, totalFiles,
                    processedFiles, deletedFiles, deletedSize, fileChan, chanClosed,
                    epc, count, pos, wobj, mpc, summary, delCalls, removed, candidates, rpc, aux >>

(* Variant: processedFiles is also incremented with deletedFiles.            *)
WorkerAddDeletedAndProcessed(w) ==
    /\ Alive /\ wpc[w] = "addDeleted"
    /\ deletedFiles' = deletedFiles + 1
    /\ processedFiles' = processedFiles + 1
    /\ wpc' = [wpc EXCEPT ![w] = "addSize"]
    /\ UNCHANGED << cfg, bucket, listing1, listing2, delFails, totalFiles,
                    deletedSize, fileChan, chanClosed,
                    epc, count, pos, wobj, mpc, summary, delCalls, removed, candidates, rpc, aux >>

(* line 171: atomic.AddInt64(&deletedFiles, 1)                               *)
WorkerAddDeleted(w) ==
    /\ Alive /\ wpc[w] = "addDeleted"
    /\ deletedFiles' = deletedFiles + 1
    /\ wpc' = [wpc EXCEPT ![w] = "addSize"]
    /\ UNCHANGED << cfg, bucket, listing1, listing2, delFails, totalFiles,
                    processedFiles, deletedSize, fileChan, chanClosed,
                    epc, count, pos, wobj, mpc, summary, delCalls, removed, candidates, rpc, aux >>

(* line 172: atomic.AddInt64(&deletedSize, obj.Size)                         *)
WorkerAddSize(w) ==
    /\ Alive /\ wpc[w] = "addSize"
    /\ deletedSize' = deletedSize + wobj[w].Size
    /\ wpc' = [wpc EXCEPT ![w] = "addProcessed"]
    /\ UNCHANGED << cfg, bucket, listing1, listing2, delFails, totalFiles,
                    processedFiles, deletedFiles, fileChan, chanClosed,
                    epc, count, pos, wobj, mpc, summary, delCalls, removed, candidates, rpc, aux >>

(* line 175: atomic.AddInt64(&processedFiles, 1) after a RemoveObject call   *)
WorkerAddProcessed(w) ==
    /\ Alive /\ wpc[w] = "addProcessed"
    /\ processedFiles' = processedFiles + 1
    /\ wpc' = [wpc EXCEPT ![w] = "recv"]
    /\ wobj' = [wobj EXCEPT ![w] = NoObj]
    /\ UNCHANGED << cfg, bucket, listing1, listing2, delFails, totalFiles,
                    deletedFiles, deletedSize, fileChan, chanClosed,
                    epc, count, pos, mpc, summary, delCalls, removed, candidates, rpc, aux >>

(* ------------------------------------------------------------------------ *)
(* main after <-doneChan, lines 216-221: the arguments of the final log line *)
(* are four atomic loads, evaluated in order; then the line is written, main *)
(* returns and the process, with every goroutine still running, ends.        *)
MainLoadTotal ==
    /\ mpc = "loadTotal"
    /\ summary' = [summary EXCEPT !.total = totalFiles]
    /\ mpc' = "loadProcessed"
    /\ UNCHANGED << cfg, bucket, listing1, listing2, delFails, totalFiles,
                    processedFiles, deletedFiles, deletedSize, fileChan, chanClosed,
                    epc, count, pos, wpc, wobj, delCalls, removed, candidates, rpc, aux >>

MainLoadProcessed ==
    /\ mpc = "loadProcessed"
    /\ summary' = [summary EXCEPT !.processed = processedFiles]
    /\ mpc' = "loadDeleted"
    /\ UNCHANGED << cfg, bucket, listing1, listing2, delFails, totalFiles,
                    processedFiles, deletedFiles, deletedSize, fileChan, chanClosed,
                    epc, count, pos, wpc, wobj, delCalls, removed, candidates, rpc, aux >>

MainLoadDeleted ==
    /\ mpc = "loadDeleted"
    /\ summary' = [summary EXCEPT !.deleted = deletedFiles]
    /\ mpc' = "loadSize"
    /\ UNCHANGED << cfg, bucket, listing1, listing2, delFails, totalFiles,
                    processedFiles, deletedFiles, deletedSize, fileChan, chanClosed,
                    epc, count, pos, wpc, wobj, delCalls, removed, candidates, rpc, aux >>

MainLoadSize ==
    /\ mpc = "loadSize"
    /\ summary' = [summary EXCEPT !.size = deletedSize]
    /\ mpc' = "logSummary"
    /\ UNCHANGED << cfg, bucket, listing1, listing2, delFails, totalFiles,
                    processedFiles, deletedFiles, deletedSize, fileChan, chanClosed,
                    epc, count, pos, wpc, wobj, delCalls, removed, candidates, rpc, aux >>

(* lines 216 and 221: log.Printf has written the summary line; main returns, *)
(* the deferred logFile.Close runs and the process ends                      *)
MainExit ==
    /\ mpc = "logSummary"
    /\ mpc' = "exited"
    /\ UNCHANGED << cfg, bucket, listing1, listing2, delFails, totalFiles,
                    processedFiles, deletedFiles, deletedSize, fileChan, chanClosed,
                    epc, count, pos, wpc, wobj, summary, delCalls, removed, candidates, rpc, aux >>

(* ------------------------------------------------------------------------ *)
(* Progress reporter goroutine, lines 123-142.                               *)

(* lines 125-126: the sleep ends and processedFiles is loaded                *)
RepLoadProcessed ==
    /\ Alive /\ rpc = "sleep"
    /\ rproc' = processedFiles
    /\ rpc' = "loaded"
    /\ UNCHANGED << cfg, bucket, listing1, listing2, delFails, totalFiles,
                    processedFiles, deletedFiles, deletedSize, fileChan, chanClosed,
                    epc, count, pos, wpc, wobj, mpc, summary, delCalls, removed,
                    candidates, progress, run, first >>

(* Variant: the loop ends when processed >= total, also for total = 0.       *)
RepTickNoTotalCheck ==
    /\ Alive /\ rpc = "loaded"
    /\ progress' = IF totalFiles > 0
                   THEN [processed |-> rproc, total |-> totalFiles]
                   ELSE progress
    /\ rpc' = IF rproc >= totalFiles THEN "exited" ELSE "sleep"
    /\ UNCHANGED << cfg, bucket, listing1, listing2, delFails, totalFiles,
                    processedFiles, deletedFiles, deletedSize, fileChan, chanClosed,
                    epc, count, pos, wpc, wobj, mpc, summary, delCalls, removed,
                    candidates, rproc, run, first >>

(* lines 127-140: totalFiles is loaded (and deletedFiles and deletedSize,    *)
(* which only appear in the log line); a progress line is logged if          *)
(* total > 0; the loop ends if processed >= total and total > 0              *)
RepTick ==
    /\ Alive /\ rpc = "loaded"
    /\ progress' = IF totalFiles > 0
                   THEN [processed |-> rproc, total |-> totalFiles]
                   ELSE progress
    /\ rpc' = IF rproc >= totalFiles /\ totalFiles > 0 THEN "exited" ELSE "sleep"
    /\ UNCHANGED << cfg, bucket, listing1, listing2, delFails, totalFiles,
                    processedFiles, deletedFiles, deletedSize, fileChan, chanClosed,
                    epc, count, pos, wpc, wobj, mpc, summary, delCalls, removed,
                    candidates, rproc, run, first >>

Reporter ==
    \/ RepLoadProcessed
    \/ RepTick

(* ------------------------------------------------------------------------ *)
Worker(w) ==
    \/ WorkerRecv(w)
    \/ WorkerExit(w)
    \/ WorkerSkipSmall(w)
    \/ WorkerSkipRecent(w)
    \/ WorkerLogCandidate(w)
    \/ WorkerDryRun(w)
    \/ WorkerRemoveCall(w)
    \/ RemoveObjectServed(w)
    \/ WorkerRemoveReturn(w)
    \/ WorkerAddDeleted(w)
    \/ WorkerAddSize(w)
    \/ WorkerAddProcessed(w)

Enumerator ==
    \/ EnumCount
    \/ EnumSkip1
    \/ EnumStoreTotal
    \/ EnumSend
    \/ EnumSkip2
    \/ EnumClose

Main ==
    \/ StartupFail
    \/ StartupOk
    \/ DoneHandshake
    \/ MainLoadTotal
    \/ MainLoadProcessed
    \/ MainLoadDeleted
    \/ MainLoadSize
    \/ MainExit

Next ==
    \/ Main
    \/ Enumerator
    \/ \E w \in Workers : Worker(w)

Spec == Init /\ [][Next]_vars

(* Runs of one worker over a bucket larger than the channel's capacity.      *)
InitBackpressure ==
    /\ cfg \in [Workers : {1}, DryRun : BOOLEAN]
    /\ bucket \in BucketsOfLen(BurstObjects)
    /\ \E e \in {{}, {1}} :
          /\ listing1 = StreamOf(bucket, e)
          /\ listing2 = StreamOf(bucket, e)
    /\ delFails \in IF cfg.DryRun THEN {{}} ELSE {{}, {BurstObjects}}
    /\ totalFiles = 0 /\ processedFiles = 0 /\ deletedFiles = 0 /\ deletedSize = 0
    /\ fileChan = << >>
    /\ chanClosed = FALSE
    /\ epc = "idle" /\ count = 0 /\ pos = 1
    /\ wpc = [w \in 1..MaxWorkers |-> "idle"]
    /\ wobj = [w \in 1..MaxWorkers |-> NoObj]
    /\ mpc = "startup"
    /\ summary = [total |-> -1, processed |-> -1, deleted |-> -1, size |-> -1]
    /\ delCalls = [k \in 1..BurstObjects |-> 0]
    /\ removed = {}
    /\ candidates = {}
    /\ rpc = "idle" /\ rproc = 0
    /\ progress = NoLine
    /\ run = 1 /\ first = NoRun

SpecBackpressure == InitBackpressure /\ [][Next]_vars

(* The listing stream of the objects of b whose keys are not in gone, with   *)
(* an error entry in place of the objects whose keys are in errs.            *)
Listing(b, errs, gone) ==
    LET kept == SelectSeq(b, LAMBDA o : o.Key \notin gone)
    IN  [i \in 1..Len(kept) |-> IF kept[i].Key \in errs THEN ErrEntry ELSE kept[i]]

(* Sizes and times of the objects in runs with the reporter: an eligible, a  *)
(* too small and a too recent object.                                        *)
Kinds == { << MinSize, ThresholdTime >>, << MinSize - 1, ThresholdTime >>,
           << MinSize, ThresholdTime + 1 >> }

(* Runs with the progress reporter, over a bucket that may change between    *)
(* the two listing calls: the keys in gone1 are added after the first call,  *)
(* the keys in gone2 are removed before the second.                          *)
InitReporter ==
    /\ cfg \in [Workers : 1..MaxWorkers, DryRun : BOOLEAN]
    /\ \E n \in 0..MaxObjects : \E a \in [1..n -> Kinds] :
          bucket = [i \in 1..n |-> Obj(i, a[i][1], a[i][2])]
    /\ \E errs \in {{}, {1}}, gone1 \in SUBSET (1..Len(bucket)),
          gone2 \in SUBSET (1..Len(bucket)) :
          /\ gone1 \cap gone2 = {}
          /\ listing1 = Listing(bucket, errs, gone1)
          /\ listing2 = Listing(bucket, errs, gone2)
    /\ delFails \in IF cfg.DryRun THEN {{}} ELSE {{}, {1} \cap (1..Len(bucket))}
    /\ totalFiles = 0 /\ processedFiles = 0 /\ deletedFiles = 0 /\ deletedSize = 0
    /\ fileChan = << >>
    /\ chanClosed = FALSE
    /\ epc = "idle" /\ count = 0 /\ pos = 1
    /\ wpc = [w \in 1..MaxWorkers |-> "idle"]
    /\ wobj = [w \in 1..MaxWorkers |-> NoObj]
    /\ mpc = "startup"
    /\ summary = [total |-> -1, processed |-> -1, deleted |-> -1, size |-> -1]
    /\ delCalls = [k \in 1..MaxObjects |-> 0]
    /\ removed = {}
    /\ candidates = {}
    /\ rpc = "idle" /\ rproc = 0
    /\ progress = NoLine
    /\ run = 1 /\ first = NoRun

NextReporter ==
    \/ Next
    \/ Reporter

SpecReporter == InitReporter /\ [][NextReporter]_vars

(* The Go scheduler runs every goroutine that can take a step; RemoveObject  *)
(* and the listing calls are assumed to return.                              *)
Fairness ==
    /\ WF_vars(Main)
    /\ WF_vars(Enumerator)
    /\ \A w \in 1..MaxWorkers : WF_vars(Worker(w))

(* The runs of Init with at least one worker, and the runs of one worker     *)
(* over a bucket larger than the channel's capacity, in which the            *)
(* enumerator's last send waits for the worker to receive.                   *)
InitFair ==
    \/ Init /\ cfg.Workers >= 1
    \/ InitBackpressure

FairSpec == InitFair /\ [][Next]_vars /\ Fairness

(* ======================================================================== *)
(* Properties.                                                               *)

(* The reference predicate of the specification's Threshold Filter.          *)
isEligible(obj) == obj.Size >= MinSize /\ obj.LastModified <= Threshold

EligibleObjs(b) == SelectSeq(b, isEligible)

(* Keys of the objects of the bucket that RemoveObject would remove.         *)
RemovableObjs(b) == SelectSeq(b, LAMBDA o : isEligible(o) /\ o.Key \notin delFails)

(* A static bucket listed twice without a listing error.                     *)
StaticNoErrors == listing1 = bucket /\ listing2 = bucket

(* Workers between receiving a descriptor and its processedFiles increment.  *)
HoldingWorkers ==
    { w \in Workers : wpc[w] \in {"filter", "logged", "calling", "served",
                                  "addDeleted", "addSize", "addProcessed"} }

Holding == Cardinality(HoldingWorkers)

(* main has received from doneChan.                                          *)
PastWait == mpc \in {"loadTotal", "loadProcessed", "loadDeleted", "loadSize", "logSummary", "exited"}

(* C1: over a static bucket without listing errors and with at least one     *)
(* worker, the processed count main reads for the final summary equals the   *)
(* total it reads.                                                           *)
C1_CounterConservation ==
    (cfg.Workers >= 1 /\ StaticNoErrors /\ mpc = "exited")
        => summary.processed = summary.total

(* C2: main is never past its wait on doneChan while a worker still holds a  *)
(* dequeued descriptor or fileChan still contains descriptors.               *)
C2_SummaryAfterWorkers ==
    PastWait => (fileChan = << >> /\ HoldingWorkers = {})

RECURSIVE SizeOfKeys(_)
SizeOfKeys(K) ==
    IF K = {} THEN 0
    ELSE LET k == CHOOSE x \in K : TRUE IN bucket[k].Size + SizeOfKeys(K \ {k})

(* Keys whose removal has not yet been added to deletedFiles / deletedSize.  *)
PendingDeleted == { wobj[w].Key : w \in { v \in Workers : wpc[v] \in {"served", "addDeleted"} } }

PendingSize ==
    { wobj[w].Key : w \in { v \in Workers : wpc[v] \in {"served", "addDeleted", "addSize"} } }

(* C3: an object with size < minSizeBytes or lastModified > thresholdTime    *)
(* never gets a RemoveObject call and never contributes to deletedFiles or   *)
(* deletedSize: the counters account for removed eligible objects only.      *)
C3_OnlyEligibleDeleted ==
    /\ \A i \in 1..Len(bucket) :
          (bucket[i].Size < MinSize \/ bucket[i].LastModified > ThresholdTime)
              => (delCalls[i] = 0 /\ i \notin removed)
    /\ deletedFiles = Cardinality(removed \ PendingDeleted)
    /\ deletedSize = SizeOfKeys(removed \ PendingSize)

(* A small object and a large recent object have both been handled in a     *)
(* real run.                                                                 *)
C3_Witness ==
    /\ ~cfg.DryRun /\ listing2 = bucket
    /\ processedFiles = Len(bucket)
    /\ \E i, j \in 1..Len(bucket) :
          /\ bucket[i].Size < MinSize
          /\ bucket[j].Size > MinSize /\ bucket[j].LastModified > ThresholdTime

(* Descriptors the enumerator has put on fileChan so far.                    *)
EnqueuedCount ==
    IF epc \in {"pass2", "sendDone", "exited"}
    THEN Len(ValidEntries(Prefix(listing2, pos - 1)))
    ELSE 0

(* C4: in preview mode no RemoveObject call is ever issued, deletedFiles and *)
(* deletedSize stay 0, and processedFiles counts every descriptor taken from *)
(* the queue whose loop body has finished, eligible or not; so once the      *)
(* queue is closed and drained it counts every discovered object.            *)
C4_DryRunNoDelete ==
    cfg.DryRun =>
        /\ \A k \in DOMAIN delCalls : delCalls[k] = 0
        /\ removed = {}
        /\ deletedFiles = 0 /\ deletedSize = 0
        /\ processedFiles = EnqueuedCount - Len(fileChan) - Holding
        /\ (StaticNoErrors /\ chanClosed /\ fileChan = << >> /\ Holding = 0)
              => processedFiles = totalFiles

(* A preview run has handled an eligible and an ineligible object.           *)
C4_Witness ==
    /\ cfg.DryRun /\ StaticNoErrors
    /\ processedFiles >= 2 /\ processedFiles = totalFiles
    /\ \E i, j \in 1..Len(bucket) :
          /\ isEligible(bucket[i]) /\ i \in candidates
          /\ ~isEligible(bucket[j])

(* Keys of the descriptors some worker has taken through the filter.         *)
PastFilterKeys ==
    LET sent == IF epc \in {"pass2", "sendDone", "exited"}
                THEN { i \in 1..(pos - 1) : ~listing2[i].Err } ELSE {}
    IN ({ listing2[i].Key : i \in sent }
          \ { fileChan[i].Key : i \in 1..Len(fileChan) })
          \ { wobj[w].Key : w \in { v \in Workers : wpc[v] = "filter" } }

(* Keys logged as candidates whose worker has not yet gone on from the log   *)
(* line.                                                                     *)
LoggedKeys == { wobj[w].Key : w \in { v \in Workers : wpc[v] = "logged" } }

(* C5: the worker selects a descriptor exactly when the reference predicate  *)
(* holds (boundaries included), and in a real run a selected descriptor has  *)
(* its RemoveObject call once its worker has gone on from the log line, so   *)
(* before its processedFiles increment; no other descriptor has one.         *)
C5_EligibilityDecision ==
    /\ candidates \subseteq PastFilterKeys
    /\ \A k \in PastFilterKeys :
          /\ k \in candidates <=> isEligible(bucket[k])
          /\ ~cfg.DryRun =>
                delCalls[k] = IF isEligible(bucket[k]) /\ k \notin LoggedKeys THEN 1 ELSE 0
    /\ \A w \in Workers :
          (~cfg.DryRun /\ wpc[w] = "addProcessed") => delCalls[wobj[w].Key] = 1

(* An object on both boundaries has been removed and counted as processed.   *)
C5_Witness ==
    /\ ~cfg.DryRun
    /\ HoldingWorkers = {}
    /\ \E k \in PastFilterKeys :
          /\ bucket[k].Size = MinSize /\ bucket[k].LastModified = ThresholdTime
          /\ delCalls[k] = 1
          /\ processedFiles >= 1

(* C6: in a real run over a static bucket without listing errors in which    *)
(* every RemoveObject call succeeds, the final summary reports               *)
(* total = processed = number of objects, deleted = number of eligible       *)
(* objects and size = sum of their sizes.                                    *)
C6_FinalCounters ==
    (/\ cfg.Workers >= 1 /\ ~cfg.DryRun /\ StaticNoErrors
     /\ \A i \in 1..Len(bucket) : isEligible(bucket[i]) => ~RemoveFails(i)
     /\ mpc = "exited")
        => summary = [total |-> Len(bucket),
                      processed |-> Len(bucket),
                      deleted |-> Len(EligibleObjs(bucket)),
                      size |-> SumSizes(EligibleObjs(bucket))]

(* The worker's RemoveObject call on its descriptor has failed.              *)
FailedAt(w) == wpc[w] = "addProcessed" /\ RemoveFails(wobj[w].Key)

(* C7: a failed RemoveObject call leaves deletedFiles and deletedSize alone; *)
(* the worker's next step adds exactly 1 to processedFiles and returns to    *)
(* the receive; no key ever gets a second call; a failing key is never       *)
(* counted as removed; and the run neither stops short of main's return nor  *)
(* turns into a fatal exit, whichever deletions fail.                        *)
C7_DeleteFailureHandled ==
    /\ [](\A k \in DOMAIN delCalls : delCalls[k] <= 1)
    /\ [](removed \cap delFails = {} /\ deletedFiles <= Cardinality(removed))
    /\ [](~cfg.DryRun => processedFiles = EnqueuedCount - Len(fileChan) - Holding)
    /\ [](cfg.Workers >= 1 => (mpc \in {"exited", "fatal"} \/ ENABLED Next))
    /\ [](mpc = "fatal" => epc = "idle")
    /\ [][\A w \in Workers :
            /\ (/\ wpc[w] = "served" /\ RemoveFails(wobj[w].Key)
                /\ wpc'[w] # wpc[w])
                   => /\ FailedAt(w)'
                      /\ removed' = removed /\ delCalls' = delCalls
                      /\ processedFiles' = processedFiles
                      /\ deletedFiles' = deletedFiles
                      /\ deletedSize' = deletedSize
            /\ (FailedAt(w) /\ wpc'[w] # wpc[w])
                   => /\ wpc'[w] = "recv"
                      /\ processedFiles' = processedFiles + 1
                      /\ deletedFiles' = deletedFiles
                      /\ deletedSize' = deletedSize
                      /\ delCalls' = delCalls]_vars

(* With one worker, the deletion of the first object failed, the worker went *)
(* on to the second object, and the run completed.                           *)
C7_Witness ==
    /\ ~cfg.DryRun /\ cfg.Workers = 1
    /\ 1 \in delFails /\ delCalls[1] = 1
    /\ processedFiles = 2
    /\ deletedFiles <= 1
    /\ mpc = "exited"

(* C8: an entry carrying an error is neither counted in pass 1 nor enqueued  *)
(* in pass 2, and it ends neither pass: the count and totalFiles are the     *)
(* number of valid entries of the first stream, and every valid entry of the *)
(* second stream is enqueued before the channel is closed.                   *)
C8_ListingErrorsSkipped ==
    /\ epc = "pass1" => count = Len(ValidEntries(Prefix(listing1, pos - 1)))
    /\ epc \in {"pass2", "sendDone", "exited"} => totalFiles = Len(ValidEntries(listing1))
    /\ \A i \in 1..Len(fileChan) : ~fileChan[i].Err
    /\ \A w \in Workers : ~wobj[w].Err
    /\ epc = "pass2" =>
          processedFiles + Holding + Len(fileChan) = Len(ValidEntries(Prefix(listing2, pos - 1)))
    /\ chanClosed =>
          processedFiles + Holding + Len(fileChan) = Len(ValidEntries(listing2))

(* Both streams carry an error entry followed by a valid entry, which was    *)
(* counted and has been processed.                                           *)
C8_Witness ==
    /\ Len(listing1) >= 2 /\ listing1[1].Err /\ ~listing1[2].Err
    /\ Len(listing2) >= 2 /\ listing2[1].Err /\ ~listing2[2].Err
    /\ totalFiles = 1
    /\ chanClosed /\ processedFiles = 1

(* Both listing calls yield error entries only.                              *)
ListingUnavailable ==
    /\ listing1 # << >> /\ ValidEntries(listing1) = << >>
    /\ listing2 # << >> /\ ValidEntries(listing2) = << >>

(* C9, as stated: when the listing yields only errors the run does not reach *)
(* the final summary of a normal completion.                                 *)
C9_ListingUnavailableFatal ==
    ListingUnavailable => mpc # "exited"

(* C9, amended: when the listing yields only errors, the entries are skipped *)
(* like any listing error: the run fails only at startup, before any         *)
(* listing; otherwise it goes on to main's return, and the final summary     *)
(* reports four zeros.                                                       *)
C9_ListingUnavailableCompletes ==
    ListingUnavailable =>
        /\ mpc = "fatal" => epc = "idle"
        /\ mpc \notin {"exited", "fatal"} => ENABLED Next
        /\ fileChan = << >> /\ processedFiles = 0
        /\ mpc = "exited" =>
              summary = [total |-> 0, processed |-> 0, deleted |-> 0, size |-> 0]

(* The listing yielded only errors and main has returned after the summary. *)
C9_Witness ==
    /\ ListingUnavailable
    /\ cfg.Workers >= 1
    /\ mpc = "exited"

(* C10: for a static bucket without listing errors the counters of the final *)
(* summary are determined by the bucket, the policy and the deletion         *)
(* outcomes alone, whatever the worker count (>= 1) and the interleaving.    *)
C10_WorkerCountInvariance ==
    (cfg.Workers >= 1 /\ StaticNoErrors /\ mpc = "exited")
        => /\ summary.processed = Len(bucket)
           /\ summary.deleted = (IF cfg.DryRun THEN 0 ELSE Len(RemovableObjs(bucket)))
           /\ summary.size = (IF cfg.DryRun THEN 0 ELSE SumSizes(RemovableObjs(bucket)))

(* C12: with at least one worker, whatever the listing streams and deletion  *)
(* outcomes, a started run is never stuck before main returns, and under     *)
(* fair scheduling the enumerator closes fileChan and signals, and main      *)
(* logs the final summary and returns.                                       *)
C12_Termination ==
    /\ []((cfg.Workers >= 1 /\ mpc \notin {"exited", "fatal"}) => ENABLED Next)
    /\ (cfg.Workers >= 1 /\ mpc = "waitDone")
          ~> (chanClosed /\ epc = "exited" /\ mpc = "exited" /\ summary.size >= 0)

(* A run that enqueued more descriptors than fileChan holds, so that a send  *)
(* had to wait for a worker, and in which a deletion failed, has completed.  *)
C12_Witness ==
    /\ cfg.Workers >= 1
    /\ Len(ValidEntries(listing2)) > 2 * cfg.Workers
    /\ \E k \in delFails : delCalls[k] = 1
    /\ chanClosed /\ epc = "exited" /\ mpc = "exited" /\ summary.size >= 0

(* C13: processedFiles is incremented once per dequeued descriptor, by the   *)
(* worker holding it and only when its disposition is known (skipped,        *)
(* previewed, removal failed, or removed and counted); deletedFiles and      *)
(* deletedSize are incremented only by a worker whose RemoveObject call on   *)
(* its dequeued descriptor succeeded, before that processedFiles increment.  *)
C13_CausalOrder ==
    /\ [](processedFiles = EnqueuedCount - Len(fileChan) - Holding)
    /\ [](\A w \in Workers :
            wpc[w] \in {"addDeleted", "addSize"}
                => (wobj[w].Key \in removed /\ delCalls[wobj[w].Key] = 1))
    /\ [][processedFiles' # processedFiles =>
            /\ processedFiles' = processedFiles + 1
            /\ deletedFiles' = deletedFiles /\ deletedSize' = deletedSize
            /\ \E w \in Workers :
                  /\ wpc'[w] = "recv"
                  /\ \A v \in Workers \ {w} : wpc'[v] = wpc[v]
                  /\ \/ /\ wpc[w] = "filter"
                        /\ ~isEligible(wobj[w])
                     \/ /\ wpc[w] = "logged"
                        /\ cfg.DryRun /\ wobj[w].Key \in candidates
                     \/ /\ wpc[w] = "addProcessed"
                        /\ delCalls[wobj[w].Key] = 1
                        /\ \/ RemoveFails(wobj[w].Key)
                           \/ wobj[w].Key \in removed \ PendingSize]_vars
    /\ [][deletedFiles' # deletedFiles =>
            /\ deletedFiles' = deletedFiles + 1
            /\ processedFiles' = processedFiles
            /\ \E w \in Workers : wpc[w] = "addDeleted" /\ wpc'[w] = "addSize"]_vars
    /\ [][deletedSize' # deletedSize =>
            /\ processedFiles' = processedFiles
            /\ \E w \in Workers :
                  /\ wpc[w] = "addSize" /\ wpc'[w] = "addProcessed"
                  /\ deletedSize' = deletedSize + wobj[w].Size]_vars

(* A removal has been counted in deletedFiles and deletedSize and its        *)
(* processedFiles increment is still to come.                                *)
C13_Witness ==
    \E w \in Workers :
        /\ wpc[w] = "addProcessed"
        /\ wobj[w].Key \in removed
        /\ deletedFiles = 1 /\ deletedSize = wobj[w].Size
        /\ processedFiles = 0

(* C14: only the enumerator, in pass 2 and before the close, appends to      *)
(* fileChan, and what it appends is the valid entry at its position; the     *)
(* only other change of fileChan is a worker receiving its head; fileChan is *)
(* closed once, after every valid entry of the second stream was enqueued,   *)
(* and stays closed; a worker's loop ends when, and only when, fileChan is   *)
(* closed and empty.                                                         *)
C14_QueueProtocol ==
    /\ [][fileChan' # fileChan =>
            \/ /\ epc = "pass2" /\ epc' = "pass2"
               /\ ~chanClosed /\ ~chanClosed'
               /\ pos <= Len(listing2) /\ ~listing2[pos].Err
               /\ fileChan' = Append(fileChan, listing2[pos])
               /\ wpc' = wpc
            \/ \E w \in Workers :
                  /\ wpc[w] = "recv" /\ wpc'[w] = "filter"
                  /\ wobj'[w] = Head(fileChan)
                  /\ fileChan' = Tail(fileChan)]_vars
    /\ [][chanClosed' # chanClosed =>
            /\ ~chanClosed /\ chanClosed'
            /\ epc = "pass2" /\ epc' = "sendDone"
            /\ pos > Len(listing2)
            /\ processedFiles + Holding + Len(fileChan) = Len(ValidEntries(listing2))]_vars
    /\ [][chanClosed => (chanClosed' /\ Len(fileChan') <= Len(fileChan))]_vars
    /\ [][\A w \in Workers :
            (wpc[w] # "exited" /\ wpc'[w] = "exited")
                => (wpc[w] = "recv" /\ chanClosed /\ fileChan = << >>)]_vars
    /\ [](\A w \in Workers :
            (Alive /\ wpc[w] = "recv" /\ chanClosed /\ fileChan = << >>)
                => (ENABLED WorkerExit(w) /\ ~ENABLED WorkerRecv(w)))

(* Both descriptors went through the queue and a worker's loop has ended.    *)
C14_Witness ==
    /\ chanClosed /\ fileChan = << >>
    /\ processedFiles = 2
    /\ \E w \in Workers : wpc[w] = "exited"

(* The valid entries the enumerator has passed in pass 2, in order.          *)
EnqueuedEntries ==
    IF epc \in {"pass2", "sendDone", "exited"}
    THEN ValidEntries(Prefix(listing2, pos - 1))
    ELSE << >>

(* C18: the queue holds exactly the enqueued descriptors not yet received,   *)
(* in order; a descriptor held by a worker is an enqueued one that is no     *)
(* longer in the queue and is held by no other worker; so no key gets more   *)
(* than one RemoveObject call, and deletedFiles <= dequeued,                 *)
(* processedFiles <= dequeued <= enqueued.                                   *)
C18_ExactlyOneReceiver ==
    LET enq == EnqueuedEntries
        deq == Len(enq) - Len(fileChan)
    IN  /\ deq >= 0
        /\ fileChan = SubSeq(enq, deq + 1, Len(enq))
        /\ \A w \in HoldingWorkers : \E i \in 1..deq : enq[i] = wobj[w]
        /\ \A w1, w2 \in HoldingWorkers : w1 # w2 => wobj[w1].Key # wobj[w2].Key
        /\ \A k \in DOMAIN delCalls : delCalls[k] <= 1
        /\ deletedFiles <= deq
        /\ processedFiles + Holding = deq
        /\ processedFiles <= deq /\ deq <= Len(enq)

(* Two workers hold the two descriptors, each with its own RemoveObject call *)
(* issued.                                                                   *)
C18_Witness ==
    \E w1, w2 \in HoldingWorkers :
        /\ w1 # w2
        /\ delCalls[wobj[w1].Key] = 1 /\ delCalls[wobj[w2].Key] = 1
        /\ fileChan = << >>

(* C20: with Workers = 0 fileChan has capacity 0 and there is no worker; if  *)
(* the second stream has a valid entry the enumerator stops at its first     *)
(* send with no step left for anyone, fileChan is never closed, nothing is   *)
(* sent on doneChan and main never gets past its wait; if it has none, the   *)
(* run is never stuck before main returns.                                   *)
C20_NoWorkersBlocks ==
    cfg.Workers = 0 =>
        /\ QueueCap = 0 /\ Workers = {}
        /\ fileChan = << >>
        /\ ValidEntries(listing2) # << >> =>
              /\ ~chanClosed
              /\ epc \notin {"sendDone", "exited"}
              /\ ~PastWait /\ summary.total = -1 /\ summary.size = -1
              /\ (epc = "pass2" /\ pos <= Len(listing2) /\ ~listing2[pos].Err)
                    => ~ENABLED Next
        /\ ValidEntries(listing2) = << >> =>
              (mpc \in {"exited", "fatal"} \/ ENABLED Next)

(* Without workers the enumerator stands at its first send.                  *)
C20_Witness ==
    /\ cfg.Workers = 0
    /\ totalFiles >= 1
    /\ epc = "pass2" /\ pos <= Len(listing2) /\ ~listing2[pos].Err
    /\ mpc = "waitDone"

(* C15: fileChan never holds more than 2 x Workers descriptors; the          *)
(* enumerator's send is enabled only below that, so with a valid entry at    *)
(* hand and a full channel the enumerator has no step; a worker at its       *)
(* receive has no step while the channel is empty and not closed.            *)
C15_BoundedBuffer ==
    /\ Len(fileChan) <= 2 * cfg.Workers
    /\ ENABLED EnumSend => Len(fileChan) < 2 * cfg.Workers
    /\ (/\ Alive /\ epc = "pass2"
        /\ pos <= Len(listing2) /\ ~listing2[pos].Err
        /\ Len(fileChan) = 2 * cfg.Workers) => ~ENABLED Enumerator
    /\ \A w \in Workers :
          (wpc[w] = "recv" /\ fileChan = << >> /\ ~chanClosed) => ~ENABLED Worker(w)

(* The channel is full and the enumerator has a further valid entry to send. *)
C15_Witness ==
    /\ cfg.Workers >= 1
    /\ Len(fileChan) = 2 * cfg.Workers
    /\ Alive /\ epc = "pass2"
    /\ pos <= Len(listing2) /\ ~listing2[pos].Err

(* C16: the reporter only reads. A tick with total = 0 logs nothing and the  *)
(* loop goes on; a tick with total > 0 logs the values read; the loop ends   *)
(* exactly at a tick that read processed >= total and total > 0.             *)
C16_ReporterRule ==
    /\ [][rpc = "loaded" /\ rpc' # "loaded" =>
            /\ rpc' \in {"sleep", "exited"}
            /\ rpc' = "exited" <=> (rproc >= totalFiles /\ totalFiles > 0)
            /\ totalFiles = 0 => (progress' = progress /\ rpc' = "sleep")
            /\ totalFiles > 0 => progress' = [processed |-> rproc, total |-> totalFiles]]_vars
    /\ [][rpc' = "exited" /\ rpc # "exited" => rpc = "loaded"]_vars
    /\ [][progress' # progress => rpc = "loaded" /\ totalFiles > 0]_vars
    /\ [][rpc' # rpc \/ rproc' # rproc \/ progress' # progress =>
            UNCHANGED << totalFiles, processedFiles, deletedFiles, deletedSize,
                         fileChan, chanClosed >>]_vars

(* The reporter has ended its loop after logging a line with                 *)
(* processed = total = 2.                                                    *)
C16_Witness ==
    /\ rpc = "exited"
    /\ progress = [processed |-> 2, total |-> 2]

(* C17: totalFiles changes once, from 0 to the number of valid entries of    *)
(* the first listing, in the step that ends the first pass, before anything  *)
(* is enqueued or processed; so a reader sees 0 or the final value. With a   *)
(* static, error-free bucket processed <= total in every state and in every  *)
(* pair of values the reporter reads or logs.                                *)
C17_TotalBeforeProcessing ==
    /\ [][totalFiles' # totalFiles =>
            /\ epc = "pass1" /\ epc' = "pass2"
            /\ totalFiles = 0
            /\ totalFiles' = Len(ValidEntries(listing1))
            /\ fileChan = << >> /\ fileChan' = << >>
            /\ Holding = 0 /\ processedFiles = 0]_vars
    /\ [](totalFiles \in {0, Len(ValidEntries(listing1))})
    /\ []((fileChan # << >> \/ Holding > 0 \/ processedFiles > 0) =>
            (epc \notin {"idle", "pass1"} /\ totalFiles = Len(ValidEntries(listing1))))
    /\ [](StaticNoErrors =>
            /\ processedFiles <= totalFiles
            /\ rproc <= processedFiles
            /\ rproc <= totalFiles
            /\ progress # NoLine => progress.processed <= progress.total)

(* Over a static bucket of two objects the reporter logged an intermediate   *)
(* line, 1 of 2.                                                             *)
C17_Witness ==
    /\ StaticNoErrors
    /\ progress = [processed |-> 1, total |-> 2]

(* C19: with a bucket that changes between the two listings, once the        *)
(* channel is closed and empty and no worker holds an object, processedFiles *)
(* is the number of valid entries of the second listing, whatever totalFiles *)
(* is; if the second listing has fewer valid entries than the first counted, *)
(* processedFiles < totalFiles from the store of totalFiles on, and the      *)
(* reporter never reads values that end its loop.                            *)
C19_MutatedBucket ==
    /\ (chanClosed /\ fileChan = << >> /\ Holding = 0) =>
          processedFiles = Len(ValidEntries(listing2))
    /\ Len(ValidEntries(listing2)) < Len(ValidEntries(listing1)) =>
          /\ epc \notin {"idle", "pass1"} => processedFiles < totalFiles
          /\ ~(rpc = "loaded" /\ rproc >= totalFiles /\ totalFiles > 0)
          /\ rpc # "exited"

(* An object was removed between the listings; the run has drained with      *)
(* processed = 1 < total = 2 and the reporter logged that and goes on.       *)
C19_Witness ==
    /\ listing1 = bucket /\ Len(listing1) = 2 /\ Len(listing2) = 1
    /\ chanClosed /\ fileChan = << >> /\ Holding = 0
    /\ processedFiles = 1 /\ totalFiles = 2
    /\ progress = [processed |-> 1, total |-> 2]
    /\ rpc = "sleep"

(* ------------------------------------------------------------------------ *)
(* Two runs of the program in sequence over the same bucket.                 *)

(* The channel is closed and empty and no worker holds an object.            *)
Drained == chanClosed /\ fileChan = << >> /\ Holding = 0

(* Keys of the RemoveObject requests that are on their way and that the      *)
(* server, when it serves them, will not fail.                               *)
InFlight == { wobj[w].Key : w \in { v \in Workers : wpc[v] = "calling" } } \ delFails

(* The sequence q without the entries of key k.                              *)
Without(q, k) == SelectSeq(q, LAMBDA o : o.Key # k)

(* Variant: the second run lists the bucket as it was before the first run.  *)
StartSecondRunSameBucket ==
    /\ mpc = "exited" /\ run = 1
    /\ run' = 2
    /\ \E d \in 0..MaxElapsed :
          first' = [total |-> totalFiles, processed |-> processedFiles,
                    deleted |-> deletedFiles, removed |-> removed,
                    drained |-> Drained,
                    clean |-> (listing1 = bucket /\ listing2 = bucket),
                    elapsed |-> d,
                    pending |-> InFlight, inflight |-> InFlight,
                    failed |-> { k \in delFails : delCalls[k] > 0 }]
    /\ bucket' = bucket
    /\ \E errs \in {{}, {1}} :
          /\ listing1' = Listing(bucket', errs, {})
          /\ listing2' = Listing(bucket', errs, {})
    /\ totalFiles' = 0 /\ processedFiles' = 0 /\ deletedFiles' = 0 /\ deletedSize' = 0
    /\ fileChan' = << >>
    /\ chanClosed' = FALSE
    /\ epc' = "idle" /\ count' = 0 /\ pos' = 1
    /\ wpc' = [w \in 1..MaxWorkers |-> "idle"]
    /\ wobj' = [w \in 1..MaxWorkers |-> NoObj]
    /\ mpc' = "startup"
    /\ summary' = [total |-> -1, processed |-> -1, deleted |-> -1, size |-> -1]
    /\ delCalls' = [k \in 1..MaxObjects |-> 0]
    /\ removed' = {}
    /\ candidates' = {}
    /\ rpc' = "idle" /\ rproc' = 0
    /\ progress' = NoLine
    /\ delFails' \in IF cfg.DryRun THEN {{}}
                    ELSE {{}, {1} \cap { bucket'[i].Key : i \in 1..Len(bucket') }}
    /\ UNCHANGED cfg

(* The process has exited (line 221) and the program is started again with   *)
(* the same configuration: main runs from line 74 with fresh counters and    *)
(* channels (lines 113-120), the threshold is computed from the clock again  *)
(* (line 104), some time d after the first run's, and ListObjects (lines     *)
(* 181, 200) lists the objects that the RemoveObject calls of the first run  *)
(* (line 166) have removed so far. A request of the first run that was on    *)
(* its way when the process ended stays with the server; a removal that      *)
(* failed in the first run may succeed in the second.                        *)
StartSecondRun ==
    /\ mpc = "exited" /\ run = 1
    /\ run' = 2
    /\ \E d \in 0..MaxElapsed :
          first' = [total |-> totalFiles, processed |-> processedFiles,
                    deleted |-> deletedFiles, removed |-> removed,
                    drained |-> Drained,
                    clean |-> (listing1 = bucket /\ listing2 = bucket),
                    elapsed |-> d,
                    pending |-> InFlight, inflight |-> InFlight,
                    failed |-> { k \in delFails : delCalls[k] > 0 }]
    /\ bucket' = SelectSeq(bucket, LAMBDA o : o.Key \notin removed)
    /\ \E errs \in {{}, {1}} :
          /\ listing1' = Listing(bucket', errs, {})
          /\ listing2' = Listing(bucket', errs, {})
    /\ totalFiles' = 0 /\ processedFiles' = 0 /\ deletedFiles' = 0 /\ deletedSize' = 0
    /\ fileChan' = << >>
    /\ chanClosed' = FALSE
    /\ epc' = "idle" /\ count' = 0 /\ pos' = 1
    /\ wpc' = [w \in 1..MaxWorkers |-> "idle"]
    /\ wobj' = [w \in 1..MaxWorkers |-> NoObj]
    /\ mpc' = "startup"
    /\ summary' = [total |-> -1, processed |-> -1, deleted |-> -1, size |-> -1]
    /\ delCalls' = [k \in 1..MaxObjects |-> 0]
    /\ removed' = {}
    /\ candidates' = {}
    /\ rpc' = "idle" /\ rproc' = 0
    /\ progress' = NoLine
    /\ delFails' \in IF cfg.DryRun THEN {{}}
                    ELSE {{}, {1} \cap { bucket'[i].Key : i \in 1..Len(bucket') }}
    /\ UNCHANGED cfg

(* line 166, the server's part of a RemoveObject call of the first run that   *)
(* was on its way when that run ended: it is served during the second run.   *)
(* The object is in none of the listings asked for after that: the first     *)
(* ListObjects call is made at startup (line 181), the second at the end of  *)
(* pass 1 (line 200).                                                        *)
RemoveObjectServedLate ==
    /\ run = 2
    /\ \E k \in first.inflight :
          /\ first' = [first EXCEPT !.inflight = @ \ {k}]
          /\ removed' = removed \cup {k}
          /\ bucket' = IF mpc = "startup" THEN Without(bucket, k) ELSE bucket
          /\ listing1' = IF mpc = "startup" THEN Without(listing1, k) ELSE listing1
          /\ listing2' = IF epc \in {"idle", "pass1"} THEN Without(listing2, k) ELSE listing2
    /\ UNCHANGED << cfg, delFails, totalFiles, processedFiles, deletedFiles, deletedSize,
                    fileChan, chanClosed, epc, count, pos, wpc, wobj, mpc, summary,
                    delCalls, candidates, rpc, rproc, progress, run >>

(* First runs over a bucket that does not change during the run.             *)
InitTwice ==
    /\ cfg \in [Workers : 1..MaxWorkers, DryRun : BOOLEAN]
    /\ \E n \in 0..MaxObjects : \E a \in [1..n -> Kinds] :
          bucket = [i \in 1..n |-> Obj(i, a[i][1], a[i][2])]
    /\ \E errs \in {{}, {1}} :
          /\ listing1 = Listing(bucket, errs, {})
          /\ listing2 = Listing(bucket, errs, {})
    /\ delFails \in IF cfg.DryRun THEN {{}} ELSE {{}, {1} \cap (1..Len(bucket))}
    /\ totalFiles = 0 /\ processedFiles = 0 /\ deletedFiles = 0 /\ deletedSize = 0
    /\ fileChan = << >>
    /\ chanClosed = FALSE
    /\ epc = "idle" /\ count = 0 /\ pos = 1
    /\ wpc = [w \in 1..MaxWorkers |-> "idle"]
    /\ wobj = [w \in 1..MaxWorkers |-> NoObj]
    /\ mpc = "startup"
    /\ summary = [total |-> -1, processed |-> -1, deleted |-> -1, size |-> -1]
    /\ delCalls = [k \in 1..MaxObjects |-> 0]
    /\ removed = {}
    /\ candidates = {}
    /\ rpc = "idle" /\ rproc = 0
    /\ progress = NoLine
    /\ run = 1 /\ first = NoRun

NextTwice ==
    \/ Next
    \/ StartSecondRun
    \/ RemoveObjectServedLate

SpecTwice == InitTwice /\ [][NextTwice]_vars

(* Both runs listed without errors.                                          *)
BothClean == first.clean /\ listing1 = bucket /\ listing2 = bucket

(* C11 as stated, with the counts taken when each run has drained: the       *)
(* second run has the processed count of the first; and in a real run in     *)
(* which no deletion fails the second run deletes nothing.                   *)
C11_Idempotence ==
    (run = 2 /\ BothClean /\ first.drained /\ Drained) =>
        /\ processedFiles = first.processed
        /\ (~cfg.DryRun /\ first.failed = {}) => deletedFiles = 0

(* The object of the bucket with key k.                                      *)
ObjOfKey(k) == CHOOSE o \in { bucket[i] : i \in 1..Len(bucket) } : o.Key = k

(* Keys of the objects that were too recent for the first run and are old    *)
(* enough for this one.                                                      *)
AgedKeys ==
    { bucket[i].Key : i \in { j \in 1..Len(bucket) :
                                 /\ bucket[j].Size >= MinSize
                                 /\ bucket[j].LastModified > ThresholdTime
                                 /\ bucket[j].LastModified <= Threshold } }

(* The listing stream q has no error entry.                                  *)
NoErr(q) == \A i \in 1..Len(q) : ~q[i].Err

(* The objects the first run left: at most those its served RemoveObject     *)
(* calls had not removed when it ended, at least those less the ones with a  *)
(* call still on its way then.                                               *)
LeftMax == first.total - Cardinality(first.removed)

LeftMin == LeftMax - Cardinality(first.pending)

(* C11, amended: the second run issues no RemoveObject call for an object    *)
(* the first run had removed when it ended. After a first run with error-    *)
(* free listings, an error-free first listing gives a total, and an error-   *)
(* free second listing a processed count at the drained point, between       *)
(* LeftMin and LeftMax; the two bounds are equal when no call of the first   *)
(* run was on its way at its end, as after a drained first run, where the    *)
(* processed count is the first one less the first deleted count; in dry-run *)
(* both are the first total. After a real first run that drained and in      *)
(* which no deletion failed, the second run selects and deletes only objects *)
(* that were too recent for the first run and have since passed the age      *)
(* threshold; if there is none it deletes nothing.                           *)
C11_SecondRun ==
    run = 2 =>
        /\ \A k \in first.removed : delCalls[k] = 0 /\ k \notin removed
        /\ (first.clean /\ NoErr(listing1) /\ epc \notin {"idle", "pass1"}) =>
              (LeftMin <= totalFiles /\ totalFiles <= LeftMax)
        /\ (first.clean /\ NoErr(listing2) /\ Drained) =>
              (LeftMin <= processedFiles /\ processedFiles <= LeftMax)
        /\ (NoErr(listing1) /\ NoErr(listing2) /\ Drained) => processedFiles <= totalFiles
        /\ first.drained =>
              /\ first.pending = {}
              /\ (BothClean /\ Drained) => processedFiles = first.processed - first.deleted
        /\ cfg.DryRun => (first.removed = {} /\ first.pending = {} /\ removed = {})
        /\ (~cfg.DryRun /\ first.clean /\ first.drained /\ first.failed = {}) =>
              /\ \A k \in candidates \cup removed :
                    /\ ObjOfKey(k).LastModified > ThresholdTime
                    /\ ObjOfKey(k).LastModified <= Threshold
              /\ deletedFiles <= Cardinality(AgedKeys)
              /\ AgedKeys = {} => (deletedFiles = 0 /\ removed = {} /\ candidates = {})

(* A real first run drained after removing one of two objects, the other     *)
(* being too recent; by the second run that one has aged past the threshold  *)
(* and the second run, drained, has removed it.                              *)
C11_Witness ==
    /\ run = 2 /\ ~cfg.DryRun /\ first.failed = {}
    /\ BothClean /\ first.drained /\ Drained
    /\ first.removed # {} /\ first.processed = 2 /\ first.deleted = 1
    /\ AgedKeys # {}
    /\ processedFiles = 1 /\ deletedFiles = 1 /\ removed = AgedKeys

====
